---- MODULE Spec2Model ----
(***************************************************************************)
(* A model of the KVM switch client (custom_components/kvm_switch):        *)
(* KvmClient's connection manager, its background read loop, the response  *)
(* parser, set_input_source and the get_current_status probe, run by       *)
(* cooperatively scheduled tasks (asyncio): a step of the model is the     *)
(* code a task runs between two suspension points (await of a sleep, of    *)
(* open_connection, of wait_closed, of readuntil).                         *)
(***************************************************************************)
EXTENDS Integers, Sequences, FiniteSets, TLC

(***************************************************************************)
(* Text.  A str is a sequence of one-character strings.                    *)
(***************************************************************************)
UPPER == <<"A","B","C","D","E","F","G","H","I","J","K","L","M",
           "N","O","P","Q","R","S","T","U","V","W","X","Y","Z">>
LOWER == <<"a","b","c","d","e","f","g","h","i","j","k","l","m",
           "n","o","p","q","r","s","t","u","v","w","x","y","z">>
DIGITS == <<"0","1","2","3","4","5","6","7","8","9">>
WHITESPACE == {" ", "\t", "\r", "\n"}

Min(a, b) == IF a < b THEN a ELSE b
Max(a, b) == IF a > b THEN a ELSE b

\* str.lower(), one character
LowerCh(c) ==
  IF \E i \in 1..26 : UPPER[i] = c
    THEN LOWER[CHOOSE i \in 1..26 : UPPER[i] = c]
    ELSE c

\* str.lower()
Lower(s) == [i \in 1..Len(s) |-> LowerCh(s[i])]

IsDigitCh(c) == \E i \in 1..10 : DIGITS[i] = c
DigitVal(c) == (CHOOSE i \in 1..10 : DIGITS[i] = c) - 1

\* str.isdigit(): non-empty and every character a digit
IsDigit(s) == Len(s) > 0 /\ \A i \in 1..Len(s) : IsDigitCh(s[i])

\* s[a:b] with Python's clamping, 0-based, a and b >= 0
Slice(s, a, b) == SubSeq(s, Min(a, Len(s)) + 1, Min(b, Len(s)))
\* s[a:]
From(s, a) == Slice(s, a, Len(s))

\* str.startswith(pre)
StartsWith(s, pre) == Len(s) >= Len(pre) /\ SubSeq(s, 1, Len(pre)) = pre

\* str.find(sub, start): the lowest 0-based index >= start, or -1
FindFrom(s, sub, start) ==
  LET hits == {i \in start..(Len(s) - Len(sub)) : SubSeq(s, i + 1, i + Len(sub)) = sub}
  IN IF hits = {} THEN -1 ELSE CHOOSE i \in hits : \A j \in hits : i <= j
Find(s, sub) == FindFrom(s, sub, 0)

\* sub in s
Contains(s, sub) == Find(s, sub) # -1

RECURSIVE LStrip(_)
LStrip(s) == IF s # <<>> /\ Head(s) \in WHITESPACE THEN LStrip(Tail(s)) ELSE s
RECURSIVE RStrip(_)
RStrip(s) ==
  IF s # <<>> /\ s[Len(s)] \in WHITESPACE THEN RStrip(SubSeq(s, 1, Len(s) - 1)) ELSE s
\* str.strip()
Strip(s) == RStrip(LStrip(s))

\* str.split(): the maximal runs of non-whitespace, in order
RECURSIVE SplitWs(_, _, _)
SplitWs(s, cur, acc) ==
  IF s = <<>> THEN (IF cur = <<>> THEN acc ELSE Append(acc, cur))
  ELSE IF Head(s) \in WHITESPACE
    THEN SplitWs(Tail(s), <<>>, IF cur = <<>> THEN acc ELSE Append(acc, cur))
    ELSE SplitWs(Tail(s), Append(cur, Head(s)), acc)
Split(s) == SplitWs(s, <<>>, <<>>)

\* str.split("/")[0]
BeforeSlash(s) == IF Find(s, <<"/">>) = -1 THEN s ELSE Slice(s, 0, Find(s, <<"/">>))

RECURSIVE DigitsValue(_, _)
DigitsValue(s, acc) ==
  IF s = <<>> THEN acc ELSE DigitsValue(Tail(s), 10 * acc + DigitVal(Head(s)))

\* int(s) of a string that passed isdigit()
ToInt(s) == DigitsValue(s, 0)

\* int(s) of any string: surrounding whitespace and one sign are accepted; the
\* result is <<value>>, or <<>> when Python raises ValueError
PyInt(s) ==
  LET t == Strip(s)
      u == IF t # <<>> /\ Head(t) \in {"+", "-"} THEN Tail(t) ELSE t
  IN IF ~IsDigit(u) THEN <<>>
     ELSE IF t # <<>> /\ Head(t) = "-" THEN <<0 - ToInt(u)>> ELSE <<ToInt(u)>>

(***************************************************************************)
(* The response parser, KvmClient._handle_response.  NONE stands for       *)
(* Python's None among the numbers a recognizer extracts (all are >= 0).   *)
(***************************************************************************)
N == 4
NONE == 0 - 1

\* Python truthiness of an Optional[int]: neither None nor 0
Truthy(v) == v # NONE /\ v # 0

NoFact == [kind |-> "none", port |-> 0, input |-> 0]
Raised == [kind |-> "raise", port |-> 0, input |-> 0]
Fact(p, i) == [kind |-> "fact", port |-> p, input |-> i]

\* a cache update without the range check
Validated_Unchecked(output_port, mapped_input) == Fact(output_port, mapped_input)

\* `1 <= output_port <= 4 and 1 <= mapped_input <= 4`, then the cache update
Validated(output_port, mapped_input) ==
  IF 1 <= output_port /\ output_port <= N /\ 1 <= mapped_input /\ mapped_input <= N
    THEN Fact(output_port, mapped_input)
    ELSE NoFact

IsRxPart(part) == StartsWith(part, <<"R","x">>) \/ StartsWith(part, <<"r","x">>)
IsTxPart(part) == StartsWith(part, <<"T","x">>) \/ StartsWith(part, <<"t","x">>)

\* the loop over response.split() of case 1: the last part of the kind ("rx" or
\* "tx") that carries a number wins
RECURSIVE LastNumbered(_, _, _)
LastNumbered(parts, kind, found) ==
  IF parts = <<>> THEN found
  ELSE LET part == Head(parts)
           num == From(part, 2)
           isKind == IF kind = "rx" THEN IsRxPart(part) ELSE IsTxPart(part)
       IN LastNumbered(Tail(parts), kind,
                       IF isKind /\ IsDigit(num) THEN ToInt(num) ELSE found)

\* the backup loop of case 2: the first Tx part that carries a number, then break
RECURSIVE FirstTx(_)
FirstTx(parts) ==
  IF parts = <<>> THEN NONE
  ELSE IF IsTxPart(Head(parts)) /\ IsDigit(From(Head(parts), 2))
    THEN (ToInt(From(Head(parts), 2)) - 4) + 1
    ELSE FirstTx(Tail(parts))

\* a case 1 that takes the output from Rx and the input from Tx
NamedPair_Swapped(response) ==
  LET parts == Split(response)
      rx_match == LastNumbered(parts, "rx", NONE)
      tx_match == LastNumbered(parts, "tx", NONE)
  IN IF Truthy(rx_match) /\ Truthy(tx_match)
       THEN Validated((rx_match - 4) + 1, (tx_match - 11) + 1)
       ELSE NoFact

\* case 1, "Rx11 to Tx4"
NamedPair(response) ==
  LET parts == Split(response)
      rx_match == LastNumbered(parts, "rx", NONE)
      tx_match == LastNumbered(parts, "tx", NONE)
  IN IF Truthy(rx_match) /\ Truthy(tx_match)
       THEN Validated((tx_match - 4) + 1, (rx_match - 11) + 1)
       ELSE NoFact

\* a case 2 that maps In11 to input 0
BypassRoute_ZeroBased(response) ==
  LET response_lower == Lower(response)
      in_start == Find(response_lower, <<"i","n">>)
      in_part == Slice(response, in_start, in_start + 4)
      input_source ==
        IF in_start # -1 /\ StartsWith(in_part, <<"I","n">>) /\ IsDigit(From(in_part, 2))
          THEN ToInt(From(in_part, 2)) ELSE NONE
      out_start == Find(response_lower, <<"o","u","t","[">>)
      out_end == IF out_start = -1 THEN -1 ELSE FindFrom(response_lower, <<"]">>, out_start)
      out_num == BeforeSlash(Slice(response, out_start + 4, out_end))
      out_port == IF out_end # -1 /\ IsDigit(out_num) THEN ToInt(out_num) ELSE NONE
      output_port ==
        IF out_port = NONE /\ Contains(response_lower, <<"t","x">>)
          THEN FirstTx(Split(response)) ELSE out_port
  IN IF Truthy(input_source) /\ Truthy(output_port)
       THEN Validated(output_port, input_source - 11)
       ELSE NoFact

\* case 2, "Bypass is 1 from In11(Legacy1) to Out[1/4]"
BypassRoute(response) ==
  LET response_lower == Lower(response)
      in_start == Find(response_lower, <<"i","n">>)
      in_part == Slice(response, in_start, in_start + 4)
      input_source ==
        IF in_start # -1 /\ StartsWith(in_part, <<"I","n">>) /\ IsDigit(From(in_part, 2))
          THEN ToInt(From(in_part, 2)) ELSE NONE
      out_start == Find(response_lower, <<"o","u","t","[">>)
      out_end == IF out_start = -1 THEN -1 ELSE FindFrom(response_lower, <<"]">>, out_start)
      out_num == BeforeSlash(Slice(response, out_start + 4, out_end))
      out_port == IF out_end # -1 /\ IsDigit(out_num) THEN ToInt(out_num) ELSE NONE
      output_port ==
        IF out_port = NONE /\ Contains(response_lower, <<"t","x">>)
          THEN FirstTx(Split(response)) ELSE out_port
  IN IF Truthy(input_source) /\ Truthy(output_port)
       THEN Validated(output_port, (input_source - 11) + 1)
       ELSE NoFact

\* a case 4 that takes the device code for the input
Legacy_NoOffset(response) ==
  IF Len(response) < 3 THEN NoFact
  ELSE LET output_port == PyInt(<<response[2]>>)
           device_code == PyInt(From(response, 2))
       IN IF output_port = <<>> \/ device_code = <<>> THEN Raised
          ELSE Validated(output_port[1], device_code[1])

\* case 4, "s10": s[port][device_code]; int() of a non-number raises
Legacy(response) ==
  IF Len(response) < 3 THEN NoFact
  ELSE LET output_port == PyInt(<<response[2]>>)
           device_code == PyInt(From(response, 2))
       IN IF output_port = <<>> \/ device_code = <<>> THEN Raised
          ELSE Validated(output_port[1], device_code[1] + 1)

\* case 5: `[int(c) for c in response if c.isdigit()]`, one number per character
DigitList(response) ==
  LET idx == {i \in 1..Len(response) : IsDigitCh(response[i])}
      Nth(k) == CHOOSE i \in idx : Cardinality({j \in idx : j <= i}) = k
  IN [k \in 1..Cardinality(idx) |-> DigitVal(response[Nth(k)])]

\* a case 5 that takes a line without the two numbers for Output 1 on IN1
DigitPair_Default(response) ==
  LET digits == DigitList(response)
      input_candidates == SelectSeq(digits, LAMBDA d : 11 <= d /\ d <= 14)
      output_candidates == SelectSeq(digits, LAMBDA d : 4 <= d /\ d <= 7)
  IN IF Len(digits) >= 2 /\ input_candidates # <<>> /\ output_candidates # <<>>
       THEN Validated((output_candidates[1] - 4) + 1, (input_candidates[1] - 11) + 1)
       ELSE Validated(1, 1)

DigitPair(response) ==
  LET digits == DigitList(response)
      input_candidates == SelectSeq(digits, LAMBDA d : 11 <= d /\ d <= 14)
      output_candidates == SelectSeq(digits, LAMBDA d : 4 <= d /\ d <= 7)
  IN IF Len(digits) >= 2 /\ input_candidates # <<>> /\ output_candidates # <<>>
       THEN Validated((output_candidates[1] - 4) + 1, (input_candidates[1] - 11) + 1)
       ELSE NoFact

\* the numbers written in a line, each maximal run of digits read as one number
RECURSIVE DigitRuns(_, _, _)
DigitRuns(s, cur, acc) ==
  IF s = <<>> THEN acc \o cur
  ELSE IF \E i \in 1..10 : DIGITS[i] = Head(s)
    THEN DigitRuns(Tail(s), <<(IF cur = <<>> THEN 0 ELSE cur[1]) * 10 + DigitVal(Head(s))>>, acc)
    ELSE DigitRuns(Tail(s), <<>>, acc \o cur)

\* a chain in which a pair of numbers, 11..14 and 4..7, is looked for before
\* the legacy form is tried
HandleResponse_DigitsFirst(response) ==
  LET response_lower == Lower(response)
      runs == DigitRuns(response, <<>>, <<>>)
      input_candidates == SelectSeq(runs, LAMBDA d : 11 <= d /\ d <= 14)
      output_candidates == SelectSeq(runs, LAMBDA d : 4 <= d /\ d <= 7)
  IN IF Strip(response) = <<>> THEN NoFact
     ELSE IF Contains(response, <<"t","o">>)
             /\ (Contains(response_lower, <<"r","x">>) \/ Contains(response_lower, <<"t","x">>))
       THEN NamedPair(response)
     ELSE IF Contains(response_lower, <<"b","y","p","a","s","s">>)
             /\ Contains(response_lower, <<"f","r","o","m">>)
             /\ Contains(response_lower, <<"t","o">>)
       THEN BypassRoute(response)
     ELSE IF Contains(response_lower, <<"b","y","p","a","s","s"," ","p","o","r","t">>)
       THEN NoFact
     ELSE IF input_candidates # <<>> /\ output_candidates # <<>>
       THEN Validated((output_candidates[1] - 4) + 1, (input_candidates[1] - 11) + 1)
     ELSE IF StartsWith(response, <<"s">>)
       THEN Legacy(response)
     ELSE DigitPair(response)

\* case 3's loop over response.split(): the number after the first part `port`
\* that a number follows
RECURSIVE BypassPort(_)
BypassPort(parts) ==
  IF Len(parts) < 2 THEN NONE
  ELSE IF Head(parts) = <<"p","o","r","t">> /\ IsDigit(parts[2]) THEN ToInt(parts[2])
  ELSE BypassPort(Tail(parts))

\* a chain whose case 3 takes the announced port for an output that shows IN1
HandleResponse_PortFact(response) ==
  LET response_lower == Lower(response)
      bypass_port == BypassPort(Split(response))
  IN IF Strip(response) = <<>> THEN NoFact
     ELSE IF Contains(response, <<"t","o">>)
             /\ (Contains(response_lower, <<"r","x">>) \/ Contains(response_lower, <<"t","x">>))
       THEN NamedPair(response)
     ELSE IF Contains(response_lower, <<"b","y","p","a","s","s">>)
             /\ Contains(response_lower, <<"f","r","o","m">>)
             /\ Contains(response_lower, <<"t","o">>)
       THEN BypassRoute(response)
     ELSE IF Contains(response_lower, <<"b","y","p","a","s","s"," ","p","o","r","t">>)
       THEN IF Truthy(bypass_port) THEN Validated((bypass_port - 6) + 1, 1) ELSE NoFact
     ELSE IF StartsWith(response, <<"s">>)
       THEN Legacy(response)
     ELSE DigitPair(response)

\* _handle_response up to its effect: the if/elif chain picks ONE case by the
\* line's shape; a case that extracts nothing does not fall through to the next
HandleResponse(response) ==
  LET response_lower == Lower(response)
  IN IF Strip(response) = <<>> THEN NoFact
     ELSE IF Contains(response, <<"t","o">>)
             /\ (Contains(response_lower, <<"r","x">>) \/ Contains(response_lower, <<"t","x">>))
       THEN NamedPair(response)
     ELSE IF Contains(response_lower, <<"b","y","p","a","s","s">>)
             /\ Contains(response_lower, <<"f","r","o","m">>)
             /\ Contains(response_lower, <<"t","o">>)
       THEN BypassRoute(response)
     ELSE IF Contains(response_lower, <<"b","y","p","a","s","s"," ","p","o","r","t">>)
       THEN NoFact
     ELSE IF StartsWith(response, <<"s">>)
       THEN Legacy(response)
     ELSE DigitPair(response)

\* what the read loop hands to _handle_response: data.decode().strip()
Decode(data) == Strip(data)

(***************************************************************************)
(* Commands.  A command is the text handed to writer.write.                *)
(***************************************************************************)
Ports == 1..N
Inputs == 1..N

\* a table whose codes are written in decimal
commands_Decimal ==
  [k \in Ports \X Inputs |->
     LET v == 8 * (k[1] - 1) + (k[2] - 1)
         D == <<"0", "1", "2", "3", "4", "5", "6", "7", "8", "9">>
     IN "cir " \o D[(v \div 10) + 1] \o D[(v % 10) + 1] \o "\r\n"]

\* set_input_source's table, keyed OUT<port>_IN<input>
commands ==
  [k \in Ports \X Inputs |->
     CASE k = <<1, 1>> -> "cir 00\r\n" [] k = <<1, 2>> -> "cir 01\r\n"
       [] k = <<1, 3>> -> "cir 02\r\n" [] k = <<1, 4>> -> "cir 03\r\n"
       [] k = <<2, 1>> -> "cir 08\r\n" [] k = <<2, 2>> -> "cir 09\r\n"
       [] k = <<2, 3>> -> "cir 0a\r\n" [] k = <<2, 4>> -> "cir 0b\r\n"
       [] k = <<3, 1>> -> "cir 10\r\n" [] k = <<3, 2>> -> "cir 11\r\n"
       [] k = <<3, 3>> -> "cir 12\r\n" [] k = <<3, 4>> -> "cir 13\r\n"
       [] k = <<4, 1>> -> "cir 18\r\n" [] k = <<4, 2>> -> "cir 19\r\n"
       [] k = <<4, 3>> -> "cir 1a\r\n" [] k = <<4, 4>> -> "cir 1b\r\n"]

\* the nudge pairs the wrong way round: the increase first
safe_commands_Swapped ==
  [p \in 1..3 |->
     CASE p = 1 -> <<"cir 1e\r\n", "cir 1d\r\n">>
       [] p = 2 -> <<"cir 06\r\n", "cir 05\r\n">>
       [] p = 3 -> <<"cir 0e\r\n", "cir 0d\r\n">>]

\* get_current_status: [decrease, increase] of the ports probed by a nudge pair
safe_commands ==
  [p \in 1..3 |->
     CASE p = 1 -> <<"cir 1d\r\n", "cir 1e\r\n">>
       [] p = 2 -> <<"cir 05\r\n", "cir 06\r\n">>
       [] p = 3 -> <<"cir 0d\r\n", "cir 0e\r\n">>]

\* get_current_status: the increase nudge of Output 4
increase_cmd == "cir 16\r\n"

\* const.py, COMMAND_MAP: the step commands of each output, in hex, a byte a
\* string
COMMAND_MAP ==
  [k \in {"PLUS", "MINUS"} \X Ports |->
     CASE k = <<"PLUS", 1>>  -> <<"63", "69", "72", "20", "31", "65", "0D", "0A">>
       [] k = <<"MINUS", 1>> -> <<"63", "69", "72", "20", "31", "64", "0D", "0A">>
       [] k = <<"PLUS", 2>>  -> <<"63", "69", "72", "20", "30", "36", "0D", "0A">>
       [] k = <<"MINUS", 2>> -> <<"63", "69", "72", "20", "30", "35", "0D", "0A">>
       [] k = <<"PLUS", 3>>  -> <<"63", "69", "72", "20", "30", "65", "0D", "0A">>
       [] k = <<"MINUS", 3>> -> <<"63", "69", "72", "20", "30", "64", "0D", "0A">>
       [] k = <<"PLUS", 4>>  -> <<"63", "69", "72", "20", "31", "36", "0D", "0A">>
       [] k = <<"MINUS", 4>> -> <<"63", "69", "72", "20", "31", "35", "0D", "0A">>]

\* const.py, COMMAND_MAP: the commands OUT<port>_IN<input>, in hex
COMMAND_MAP_IN ==
  [k \in Ports \X Inputs |->
     CASE k = <<1, 1>> -> <<"63", "69", "72", "20", "30", "30", "0D", "0A">>
       [] k = <<1, 2>> -> <<"63", "69", "72", "20", "30", "31", "0D", "0A">>
       [] k = <<1, 3>> -> <<"63", "69", "72", "20", "30", "32", "0D", "0A">>
       [] k = <<1, 4>> -> <<"63", "69", "72", "20", "30", "33", "0D", "0A">>
       [] k = <<2, 1>> -> <<"63", "69", "72", "20", "30", "38", "0D", "0A">>
       [] k = <<2, 2>> -> <<"63", "69", "72", "20", "30", "39", "0D", "0A">>
       [] k = <<2, 3>> -> <<"63", "69", "72", "20", "30", "61", "0D", "0A">>
       [] k = <<2, 4>> -> <<"63", "69", "72", "20", "30", "62", "0D", "0A">>
       [] k = <<3, 1>> -> <<"63", "69", "72", "20", "31", "30", "0D", "0A">>
       [] k = <<3, 2>> -> <<"63", "69", "72", "20", "31", "31", "0D", "0A">>
       [] k = <<3, 3>> -> <<"63", "69", "72", "20", "31", "32", "0D", "0A">>
       [] k = <<3, 4>> -> <<"63", "69", "72", "20", "31", "33", "0D", "0A">>
       [] k = <<4, 1>> -> <<"63", "69", "72", "20", "31", "38", "0D", "0A">>
       [] k = <<4, 2>> -> <<"63", "69", "72", "20", "31", "39", "0D", "0A">>
       [] k = <<4, 3>> -> <<"63", "69", "72", "20", "31", "61", "0D", "0A">>
       [] k = <<4, 4>> -> <<"63", "69", "72", "20", "31", "62", "0D", "0A">>]

\* the character of a byte written in hex
Chr ==
  [h \in {"0A", "0D", "20", "30", "31", "32", "33", "35", "36", "38", "39", "61", "62", "63", "64", "65", "69", "72"} |->
     CASE h = "0A" -> "\n" [] h = "0D" -> "\r" [] h = "20" -> " " [] h = "30" -> "0"
       [] h = "31" -> "1" [] h = "32" -> "2" [] h = "33" -> "3" [] h = "35" -> "5"
       [] h = "36" -> "6" [] h = "38" -> "8" [] h = "39" -> "9" [] h = "61" -> "a"
       [] h = "62" -> "b" [] h = "63" -> "c" [] h = "64" -> "d" [] h = "65" -> "e"
       [] h = "69" -> "i" [] h = "72" -> "r"]

\* the bytes of a hex text
RECURSIVE FromHex(_)
FromHex(hex) == IF hex = <<>> THEN "" ELSE Chr[Head(hex)] \o FromHex(Tail(hex))

\* get_current_status: the direct query of each port
direct_query_commands ==
  [p \in Ports |->
     CASE p = 1 -> "cir 00\r\n" [] p = 2 -> "cir 08\r\n"
       [] p = 3 -> "cir 10\r\n" [] p = 4 -> "cir 18\r\n"]

(***************************************************************************)
(* The device's lines, as the bytes readuntil returns without the final    *)
(* newline.                                                                *)
(***************************************************************************)
Num(n) == IF n < 10 THEN <<DIGITS[n + 1]>> ELSE <<DIGITS[(n \div 10) + 1], DIGITS[(n % 10) + 1]>>

RxTxLine(rx, tx) ==
  <<"R","x">> \o Num(rx) \o <<" ","t","o"," ","T","x">> \o Num(tx) \o <<"\r">>
LegacyLine(port, code) == <<"s">> \o Num(port) \o Num(code)
BypassLine(inn, out) ==
  <<"B","y","p","a","s","s"," ","i","s"," ","1"," ","f","r","o","m"," ","I","n">> \o Num(inn)
    \o <<"(","L","e","g","a","c","y","1",")"," ","t","o"," ","O","u","t","[">> \o Num(out)
    \o <<"/","4","]">>
HelloWorld == <<"h","e","l","l","o"," ","w","o","r","l","d">>
BypassPort6 == <<"*","*"," ","H","D","M","I"," ","H","D","C","P"," ","b","y","p","a","s","s",
                 " ","p","o","r","t"," ","6">>

\* `s10 Rx12 to Tx5`: the legacy form of Output 1 on IN1, then a named pair
LegacyNamed == LegacyLine(1, 0) \o <<" ">> \o RxTxLine(12, 5)
\* the bypass route of In11 to Out[1/4] with a stray `tx` after it
BypassWithTx == BypassLine(11, 1) \o <<" ", "t", "x">>
\* `Bypass is 1 from In11(Legacy1) to Tx4`: a bypass route that names its output
\* by a Tx token; to: the word between the two, as the device cases it
BypassTxLine(inn, tx, to) ==
  <<"B","y","p","a","s","s"," ","i","s"," ","1"," ","f","r","o","m"," ","I","n">> \o Num(inn)
    \o <<"(","L","e","g","a","c","y","1",")"," ">> \o to \o <<" ","T","x">> \o Num(tx)
ToWords == {<<"t","o">>, <<"T","O">>}
\* the In and Tx numbers of those lines: each input once, each output once
InTx == {<<inn, inn - 7>> : inn \in 11..14}
\* `12 5`: two numbers and nothing else
Digits12_5 == <<"1","2"," ","5">>
\* `** HDMI HDCP bypass port 6`
BypassPortLine(n) ==
  <<"*","*"," ","H","D","M","I"," ","H","D","C","P"," ","b","y","p","a","s","s",
    " ","p","o","r","t"," ">> \o Num(n)
BypassPortNumbers == {0} \cup (5..10)

\* the numbers the lines are written from: every pair in range, and the pairs
\* of the numbers at and next to the ends of each range
RxTxNumbers == ((11..14) \X (4..7)) \cup ({10, 11, 14, 15} \X {3, 4, 7, 8})
LegacyNumbers == ((1..4) \X (0..3)) \cup ({0, 1, 4, 5} \X {0, 3, 4})
BypassNumbers == ((11..14) \X (1..4)) \cup ({10, 11, 14, 15} \X {0, 1, 4, 5})

Lines ==
  {RxTxLine(k[1], k[2]) : k \in RxTxNumbers}
    \cup {LegacyLine(k[1], k[2]) : k \in LegacyNumbers}
    \cup {BypassLine(k[1], k[2]) : k \in BypassNumbers}
    \cup {BypassTxLine(k[1], k[2], to) : k \in InTx, to \in ToWords}
    \cup {BypassPortLine(n) : n \in BypassPortNumbers}
    \cup {HelloWorld, BypassPort6, <<>>, <<" ">>, <<"s","a","b">>, <<"s","1">>,
          <<"s","1","1"," ","4">>, <<"s","4"," ","1","1">>, LegacyNamed, BypassWithTx,
          Digits12_5}

\* const.py, STATE_MAP: the legacy status lines and the inputs they name
STATE_MAP ==
  [k \in {<<"s","1","0">>, <<"s","1","1">>, <<"s","1","2">>, <<"s","1","3">>,
           <<"s","2","0">>, <<"s","2","1">>, <<"s","2","2">>, <<"s","2","3">>,
           <<"s","3","0">>, <<"s","3","1">>, <<"s","3","2">>, <<"s","3","3">>,
           <<"s","4","0">>, <<"s","4","1">>, <<"s","4","2">>, <<"s","4","3">>} |->
     CASE k = <<"s","1","0">> -> "IN1"
       [] k = <<"s","1","1">> -> "IN2"
       [] k = <<"s","1","2">> -> "IN3"
       [] k = <<"s","1","3">> -> "IN4"
       [] k = <<"s","2","0">> -> "IN1"
       [] k = <<"s","2","1">> -> "IN2"
       [] k = <<"s","2","2">> -> "IN3"
       [] k = <<"s","2","3">> -> "IN4"
       [] k = <<"s","3","0">> -> "IN1"
       [] k = <<"s","3","1">> -> "IN2"
       [] k = <<"s","3","2">> -> "IN3"
       [] k = <<"s","3","3">> -> "IN4"
       [] k = <<"s","4","0">> -> "IN1"
       [] k = <<"s","4","1">> -> "IN2"
       [] k = <<"s","4","2">> -> "IN3"
       [] k = <<"s","4","3">> -> "IN4"]

\* the lines the device sends while callers use the client: the status
\* broadcasts of every port and input, and lines that carry no status
Broadcasts ==
  {RxTxLine(rx, tx) : rx \in 11..14, tx \in 4..7}
    \cup {RxTxLine(15, 4), LegacyLine(2, 1), HelloWorld, BypassPort6, <<>>}

(***************************************************************************)
(* State.                                                                  *)
(***************************************************************************)
NTasks == 2
MaxCallbacks == 1
MaxObs == 2

Tasks == 1..NTasks
\* arguments callers pass, valid and not
ArgRange == 0..(N + 1)

VARIABLES
  connected,     \* self.connected
  reader,        \* self.reader: "None" or "open"
  writer,        \* self.writer: "None", "open", or "closed" (close() was called)
  status_cache,  \* self._status_cache, a function from its keys
  callbacks,     \* the keys of self._callbacks
  monitor_task,  \* self._monitor_task: "None", or where the task is: "reading"
                 \* (awaiting readuntil of self.reader), "stale" (awaiting readuntil
                 \* of a reader that connect has since replaced), "backoff", "done"
  task,          \* the caller tasks: the call each runs and where it is suspended
  invoked,       \* the callback invocations made by the latest step: <<key, argument>>
  returned,      \* the calls that returned in the latest step, with what they returned
  scope,         \* the port and input numbers the run involves (fixed from the start)
  handled,       \* the line the latest step handled, in a run that keeps it,
                 \* written twice when the step before handled the same line
                 \* and the line says a fact
  caught,        \* what the `except` of _handle_response caught in the latest step,
                 \* in a run that keeps the line: "none", "ValueError" (int() of a
                 \* non-number), "callback" (the callback raised)
  alive          \* the number of read-loop tasks that were created and have not ended

vars == <<connected, reader, writer, status_cache, callbacks, monitor_task, task, invoked,
          returned, scope, handled, caught, alive>>
client == <<connected, reader, writer, status_cache, callbacks, monitor_task>>

\* dict operations
Has(d, k) == k \in DOMAIN d
Put(d, k, v) == [x \in (DOMAIN d) \cup {k} |-> IF x = k THEN v ELSE d[x]]
Empty == <<>>

\* str(output_port), and the key a caller passes as an int
StrKey(p) == <<"str", p>>
IntKey(p) == <<"int", p>>

\* a task's record: the call (op, port, input), where it is suspended (pc; after:
\* where it goes on once wait_closed returns), its local original_state (orig),
\* its result (ok of connect and set_input_source, val of get_current_status), and
\* what is noted of the call: hit (the cache answered at once), fault (a write of
\* it raised), solo (no other call was in flight during it) and, of a call that is
\* solo: up (the client was connected when it began), wlog (the commands it
\* wrote), obs (the first MaxObs facts the read loop decoded for its port
\* meanwhile, each with the pc it was at), more (there were further ones)
Idle ==
  [op |-> "none", pc |-> "idle", port |-> 0, input |-> 0, orig |-> 0,
   after |-> "-", ok |-> FALSE, val |-> NONE, hit |-> FALSE, fault |-> FALSE,
   solo |-> FALSE, up |-> FALSE, wlog |-> <<>>, obs |-> <<>>, more |-> FALSE]

InFlight(r) == r.pc # "idle"
Quiet == \A u \in Tasks : ~InFlight(task[u])

\* the bounded scope of a run: its calls and its lines are about two output
\* ports (both probed by a nudge pair, or one of them Output 4) and two input
\* sources, and callers pass one number that is out of range for each
Scopes == {{0, 1, 2}, {3, 4, 5}}
InScope(p) == p \in scope.ports
InputInScope(i) == i \in scope.inputs

Init ==
  /\ connected = FALSE
  /\ reader = "None"
  /\ writer = "None"
  /\ status_cache = Empty
  /\ callbacks = {}
  /\ monitor_task = "None"
  /\ task = [t \in Tasks |-> Idle]
  /\ invoked = <<>>
  /\ returned = {}
  /\ scope \in [ports : Scopes, inputs : Scopes]
  /\ handled = <<>>
  /\ caught = "none"
  /\ alive = 0

(***************************************************************************)
(* Calls.  A caller task t runs one call at a time; several tasks share    *)
(* the client.  The host serializes connect with every other call          *)
(* (__init__.py awaits it before anything else uses the client).           *)
(***************************************************************************)
CanBegin(t) == ~InFlight(task[t]) /\ \A u \in Tasks : task[u].pc # "open"

\* a fresh call record; solo: no other call is in flight when it begins
New(t, op, p, i) ==
  LET alone == \A u \in Tasks \ {t} : ~InFlight(task[u])
  IN [Idle EXCEPT !.op = op, !.port = p, !.input = i, !.solo = alone,
                  !.up = alone /\ connected]

\* a record whose call has returned: the step that returns it reports it in
\* `returned` and leaves the task idle
Return(r) == [r EXCEPT !.pc = "done", !.after = "-"]
ReturnOk(r, ok) == [Return(r) EXCEPT !.ok = ok]
ReturnVal(r, v) == [Return(r) EXCEPT !.val = v]

NotAlone(r) ==
  [r EXCEPT !.solo = FALSE, !.up = FALSE, !.wlog = <<>>, !.obs = <<>>, !.more = FALSE]

\* the tasks and the report after t begins a call that is now at record r: the
\* calls in flight beside a beginning call are no longer alone
Started(t, r) ==
  /\ task' = [u \in Tasks |->
                IF u = t THEN (IF r.pc = "done" THEN Idle ELSE r)
                ELSE IF InFlight(task[u]) THEN NotAlone(task[u])
                ELSE task[u]]
  /\ returned' = IF r.pc = "done" THEN {r} ELSE {}

\* the tasks and the report after t has moved on to record r
Moved(t, r) ==
  /\ task' = [task EXCEPT ![t] = IF r.pc = "done" THEN Idle ELSE r]
  /\ returned' = IF r.pc = "done" THEN {r} ELSE {}

\* _send_command: "down" when `not self.connected or not self.writer`, else
\* the write either goes through ("ok") or raises ("fail")
Up == connected /\ writer # "None"
CanSend(o) ==
  \/ o = "down" /\ ~Up
  \/ o = "ok" /\ Up /\ writer = "open"
  \/ o = "fail" /\ Up

\* disconnect up to `await self.writer.wait_closed()`
DisconnectHead ==
  /\ connected' = FALSE
  /\ monitor_task' = "None"
  /\ alive' = IF monitor_task \in {"reading", "stale", "backoff"} THEN alive - 1 ELSE alive
  /\ writer' = IF writer = "None" THEN "None" ELSE "closed"

\* a disconnect that forgets `self.reader = None`
DisconnectTail_KeepsReader ==
  /\ reader' = reader
  /\ writer' = "None"

\* disconnect after wait_closed: the handles are dropped, the cache cleared
DisconnectTail ==
  /\ reader' = "None"
  /\ writer' = "None"

\* a _send_command whose `except` does not disconnect
SendClient_NoDisconnect(o) ==
  /\ CanSend(o)
  /\ UNCHANGED <<connected, monitor_task, alive, writer, reader>>

\* what _send_command does to the connection
SendClient(o) ==
  /\ CanSend(o)
  /\ IF o = "fail"
       THEN DisconnectHead /\ UNCHANGED reader
       ELSE UNCHANGED <<connected, monitor_task, alive, writer, reader>>

\* the task after _send_command(cmd), suspended next at `next`; a failed write
\* first awaits wait_closed inside disconnect
Sent(r, cmd, o, next) ==
  IF o = "fail" THEN [r EXCEPT !.pc = "wc", !.after = next, !.fault = TRUE]
  ELSE [r EXCEPT !.pc = next, !.wlog = IF o = "ok" /\ r.solo THEN Append(@, cmd) ELSE @]

\* connect, up to `await asyncio.open_connection`
ConnectBegin(t) ==
  /\ Quiet
  /\ Started(t, [New(t, "connect", 0, 0) EXCEPT !.pc = "open"])
  /\ invoked' = <<>>
  /\ handled' = <<>>
  /\ caught' = "none"
  /\ UNCHANGED <<client, alive, scope>>

\* _start_monitoring: a task is created only when none is kept or the one kept
\* is done; a task kept while it awaits readuntil goes on awaiting the reader
\* it called, which `self.reader, self.writer = ...` has just replaced
StartMonitoring ==
  IF monitor_task \in {"None", "done"} THEN "reading"
  ELSE IF monitor_task = "reading" THEN "stale"
  ELSE monitor_task

\* a _start_monitoring that creates a task beside one it keeps running, too
Created_Always ==
  IF monitor_task \in {"None", "done", "reading", "stale", "backoff"} THEN 1 ELSE 0

\* the tasks `self.loop.create_task(self._monitor_responses())` adds
Created == IF monitor_task \in {"None", "done"} THEN 1 ELSE 0

\* connect, once open_connection has returned or raised
ConnectEnd(t, opened) ==
  /\ task[t].pc = "open"
  /\ IF opened
       THEN /\ reader' = "open"
            /\ writer' = "open"
            /\ connected' = TRUE
            /\ monitor_task' = StartMonitoring
            /\ alive' = alive + Created
       ELSE /\ connected' = FALSE
            /\ UNCHANGED <<reader, writer, monitor_task, alive>>
  /\ Moved(t, ReturnOk(task[t], opened))
  /\ invoked' = <<>>
  /\ handled' = <<>>
  /\ caught' = "none"
  /\ UNCHANGED <<status_cache, callbacks, scope>>

\* a disconnect without its `if self.connected:`
DisconnectBegin_Unguarded(t) ==
  /\ CanBegin(t)
  /\ LET r == New(t, "disconnect", 0, 0)
     IN /\ DisconnectHead
        /\ IF writer # "None"
             THEN /\ Started(t, [r EXCEPT !.pc = "wc", !.after = "ret"])
                  /\ UNCHANGED <<reader, status_cache>>
             ELSE /\ Started(t, Return(r))
                  /\ reader' = "None"
                  /\ status_cache' = Empty
  /\ invoked' = <<>>
  /\ handled' = <<>>
  /\ caught' = "none"
  /\ UNCHANGED <<callbacks, scope>>

\* disconnect, up to wait_closed (or to its end when there is nothing to wait for)
DisconnectBegin(t) ==
  /\ CanBegin(t)
  /\ LET r == New(t, "disconnect", 0, 0)
     IN IF connected
          THEN /\ DisconnectHead
               /\ IF writer # "None"
                    THEN /\ Started(t, [r EXCEPT !.pc = "wc", !.after = "ret"])
                         /\ UNCHANGED <<reader, status_cache>>
                    ELSE /\ Started(t, Return(r))
                         /\ reader' = "None"
                         /\ status_cache' = Empty
          ELSE /\ Started(t, Return(r))
               /\ UNCHANGED <<connected, reader, writer, status_cache, monitor_task, alive>>
  /\ invoked' = <<>>
  /\ handled' = <<>>
  /\ caught' = "none"
  /\ UNCHANGED <<callbacks, scope>>

\* wait_closed returns: disconnect finishes, and the caller of the failed
\* _send_command goes on to its next suspension point
WaitClosed(t) ==
  /\ task[t].pc = "wc"
  /\ DisconnectTail
  /\ LET r == task[t]
     IN CASE r.after = "ret" ->
               /\ status_cache' = Empty
               /\ Moved(t, Return(r))
          [] r.after = "set_fail" ->
               /\ status_cache' = Empty
               /\ Moved(t, ReturnOk(r, FALSE))
          [] r.after = "g4_set_fail" ->
               /\ status_cache' = Put(Empty, r.port, r.orig)
               /\ Moved(t, ReturnVal(r, r.orig))
          [] OTHER ->
               /\ status_cache' = Empty
               /\ Moved(t, [r EXCEPT !.pc = r.after, !.after = "-"])
  /\ invoked' = <<>>
  /\ handled' = <<>>
  /\ caught' = "none"
  /\ UNCHANGED <<connected, callbacks, monitor_task, alive, scope>>

\* `not 1 <= output_port <= 4 or not 1 <= input_source <= 4`
InvalidParameters(p, i) == ~(1 <= p /\ p <= N) \/ ~(1 <= i /\ i <= N)

\* a refusal that drops the cache
Rejected_Clears(t, r) ==
  /\ Started(t, ReturnOk(r, FALSE))
  /\ status_cache' = Empty
  /\ UNCHANGED <<connected, reader, writer, monitor_task, alive>>

\* set_input_source refuses its parameters: `return False`
Rejected(t, r) ==
  /\ Started(t, ReturnOk(r, FALSE))
  /\ UNCHANGED <<connected, reader, writer, status_cache, monitor_task, alive>>

\* set_input_source, up to `await asyncio.sleep(0.3)` (or to its return)
SetBegin(t, p, i, o) ==
  /\ CanBegin(t)
  /\ InScope(p)
  /\ InputInScope(i)
  /\ LET r == New(t, "set", p, i)
     IN IF InvalidParameters(p, i)
          THEN /\ o = "down"
               /\ Rejected(t, r)
          ELSE /\ SendClient(o)
               /\ CASE o = "down" ->
                         /\ Started(t, ReturnOk(r, FALSE))
                         /\ UNCHANGED status_cache
                    [] o = "ok" ->
                         /\ Started(t, Sent(r, commands[<<p, i>>], o, "s_sleep"))
                         /\ status_cache' = Put(status_cache, p, i)
                    [] o = "fail" ->
                         /\ Started(t, Sent(r, commands[<<p, i>>], o, "set_fail"))
                         /\ UNCHANGED status_cache
  /\ invoked' = <<>>
  /\ handled' = <<>>
  /\ caught' = "none"
  /\ UNCHANGED <<callbacks, scope>>

\* set_input_source returns True after its settle delay
SetEnd(t) ==
  /\ task[t].pc = "s_sleep"
  /\ Moved(t, ReturnOk(task[t], TRUE))
  /\ invoked' = <<>>
  /\ handled' = <<>>
  /\ caught' = "none"
  /\ UNCHANGED <<client, alive, scope>>

\* a cache lookup that answers the default instead of the entry
CachedStatus_Default(t, r, p) ==
  /\ Started(t, ReturnVal([r EXCEPT !.hit = TRUE], 1))
  /\ UNCHANGED <<connected, reader, writer, monitor_task, alive>>

\* get_current_status finds the port in the cache: `return cached_status`
CachedStatus(t, r, p) ==
  /\ Started(t, ReturnVal([r EXCEPT !.hit = TRUE], status_cache[p]))
  /\ UNCHANGED <<connected, reader, writer, monitor_task, alive>>

\* a probe that answers a port it has no nudge for with the default IN1
GetBegin_DefaultAnyPort(t, p, o) ==
  /\ CanBegin(t)
  /\ InScope(p)
  /\ LET r == New(t, "get", p, 0)
     IN IF Has(status_cache, p)
          THEN /\ o = "down"
               /\ CachedStatus(t, r, p)
          ELSE IF p = 4
            THEN /\ SendClient(o)
                 /\ Started(t, Sent(r, increase_cmd, o, "g4_poll"))
          ELSE IF p \in DOMAIN safe_commands
            THEN /\ SendClient(o)
                 /\ Started(t, Sent(r, safe_commands[p][1], o, "g_s1"))
          ELSE /\ o = "down"
               /\ Started(t, ReturnVal(r, 1))
               /\ UNCHANGED <<connected, reader, writer, monitor_task, alive>>
  /\ invoked' = <<>>
  /\ handled' = <<>>
  /\ caught' = "none"
  /\ UNCHANGED <<status_cache, callbacks, scope>>

\* get_current_status, up to its first sleep (or to its return): the cached
\* value, else the first command of the probe
GetBegin(t, p, o) ==
  /\ CanBegin(t)
  /\ InScope(p)
  /\ LET r == New(t, "get", p, 0)
     IN IF Has(status_cache, p)
          THEN /\ o = "down"
               /\ CachedStatus(t, r, p)
          ELSE IF p = 4
            THEN /\ SendClient(o)
                 /\ Started(t, Sent(r, increase_cmd, o, "g4_poll"))
          ELSE IF p \in DOMAIN safe_commands
            THEN /\ SendClient(o)
                 /\ Started(t, Sent(r, safe_commands[p][1], o, "g_s1"))
          ELSE /\ o = "down"
               /\ Started(t, ReturnVal(r, NONE))
               /\ UNCHANGED <<connected, reader, writer, monitor_task, alive>>
  /\ invoked' = <<>>
  /\ handled' = <<>>
  /\ caught' = "none"
  /\ UNCHANGED <<status_cache, callbacks, scope>>

\* the second command of the nudge pair, after the first sleep(0.5); the
\* sleep(0.5) that follows it runs into the first sleep(1.0) of the poll loop
GetSecond(t, o) ==
  /\ task[t].pc = "g_s1"
  /\ SendClient(o)
  /\ Moved(t, Sent(task[t], safe_commands[task[t].port][2], o, "g_poll"))
  /\ invoked' = <<>>
  /\ handled' = <<>>
  /\ caught' = "none"
  /\ UNCHANGED <<status_cache, callbacks, scope>>

\* a poll that takes whatever entry the cache holds, of any port
GetPoll_AnyPort(t, o, last) ==
  /\ task[t].pc = "g_poll"
  /\ LET r == task[t]
     IN IF status_cache # Empty
          THEN /\ o = "down" /\ ~last
               /\ Moved(t, ReturnVal(r, status_cache[CHOOSE k \in DOMAIN status_cache : TRUE]))
               /\ UNCHANGED <<connected, reader, writer, monitor_task, alive>>
          ELSE IF ~last
            THEN /\ o = "down"
                 /\ Moved(t, r)
                 /\ UNCHANGED <<connected, reader, writer, monitor_task, alive>>
          ELSE /\ SendClient(o)
               /\ Moved(t, Sent(r, direct_query_commands[r.port], o, "g_dq"))
  /\ invoked' = <<>>
  /\ handled' = <<>>
  /\ caught' = "none"
  /\ UNCHANGED <<status_cache, callbacks, scope>>

\* a poll loop without a last round: `while True`
GetPoll_Unbounded(t, o, last) ==
  /\ task[t].pc = "g_poll"
  /\ LET r == task[t]
     IN IF Has(status_cache, r.port)
          THEN /\ o = "down" /\ ~last
               /\ Moved(t, ReturnVal(r, status_cache[r.port]))
          ELSE /\ o = "down"
               /\ Moved(t, r)
  /\ invoked' = <<>>
  /\ handled' = <<>>
  /\ caught' = "none"
  /\ UNCHANGED <<client, alive, scope>>

\* one round of `for attempt in range(10)`; after the last, the direct query.
\* The rounds are not counted: a round that finds nothing changes nothing, so
\* whether it is the last is left open
GetPoll(t, o, last) ==
  /\ task[t].pc = "g_poll"
  /\ LET r == task[t]
     IN IF Has(status_cache, r.port)
          THEN /\ o = "down" /\ ~last
               /\ Moved(t, ReturnVal(r, status_cache[r.port]))
               /\ UNCHANGED <<connected, reader, writer, monitor_task, alive>>
          ELSE IF ~last
            THEN /\ o = "down"
                 /\ Moved(t, r)
                 /\ UNCHANGED <<connected, reader, writer, monitor_task, alive>>
          ELSE /\ SendClient(o)
               /\ Moved(t, Sent(r, direct_query_commands[r.port], o, "g_dq"))
  /\ invoked' = <<>>
  /\ handled' = <<>>
  /\ caught' = "none"
  /\ UNCHANGED <<status_cache, callbacks, scope>>

\* a fallback that returns the default without caching it
GetDirect_NoStore(t) ==
  /\ task[t].pc = "g_dq"
  /\ LET r == task[t]
     IN IF Has(status_cache, r.port)
          THEN Moved(t, ReturnVal(r, status_cache[r.port]))
          ELSE Moved(t, ReturnVal(r, 1))
  /\ invoked' = <<>>
  /\ handled' = <<>>
  /\ caught' = "none"
  /\ UNCHANGED <<client, alive, scope>>

\* after the direct query's sleep(1.0): the cached value, else the default IN1
GetDirect(t) ==
  /\ task[t].pc = "g_dq"
  /\ LET r == task[t]
     IN IF Has(status_cache, r.port)
          THEN /\ Moved(t, ReturnVal(r, status_cache[r.port]))
               /\ UNCHANGED status_cache
          ELSE /\ Moved(t, ReturnVal(r, 1))
               /\ status_cache' = Put(status_cache, r.port, 1)
  /\ invoked' = <<>>
  /\ handled' = <<>>
  /\ caught' = "none"
  /\ UNCHANGED <<connected, reader, writer, callbacks, monitor_task, alive, scope>>

\* an inference that does not wrap from IN1 to IN4
OriginalState_NoWrap(increased_status) == increased_status - 1

\* `original_state = increased_status - 1 if increased_status > 1 else 4`
OriginalState(increased_status) ==
  IF increased_status > 1 THEN increased_status - 1 ELSE 4

\* Output 4, one round of `for attempt in range(5)` (the sleep(0.5) after the
\* increase runs into the loop's first sleep(0.5)): on a cached value the
\* original is inferred and restored by set_input_source; after the last round
\* that finds nothing the call falls through to the ten-round loop
Get4Poll(t, o, last) ==
  /\ task[t].pc = "g4_poll"
  /\ LET r == task[t]
         increased_status == status_cache[r.port]
         original_state == OriginalState(increased_status)
         s == [r EXCEPT !.orig = original_state]
     IN IF Has(status_cache, r.port)
          THEN IF InvalidParameters(r.port, original_state)
                 THEN /\ o = "down" /\ ~last
                      /\ Moved(t, ReturnVal(s, original_state))
                      /\ status_cache' = Put(status_cache, r.port, original_state)
                      /\ UNCHANGED <<connected, reader, writer, monitor_task, alive>>
                 ELSE /\ SendClient(o) /\ ~last
                      /\ CASE o = "down" ->
                                /\ Moved(t, ReturnVal(s, original_state))
                                /\ status_cache' = Put(status_cache, r.port, original_state)
                           [] o = "ok" ->
                                /\ Moved(t, Sent(s, commands[<<r.port, original_state>>], o, "g4_set"))
                                /\ status_cache' = Put(status_cache, r.port, original_state)
                           [] o = "fail" ->
                                /\ Moved(t, Sent(s, commands[<<r.port, original_state>>], o, "g4_set_fail"))
                                /\ UNCHANGED status_cache
          ELSE /\ o = "down"
               /\ Moved(t, IF ~last THEN r ELSE [r EXCEPT !.pc = "g_poll"])
               /\ UNCHANGED <<connected, reader, writer, status_cache, monitor_task, alive>>
  /\ invoked' = <<>>
  /\ handled' = <<>>
  /\ caught' = "none"
  /\ UNCHANGED <<callbacks, scope>>

\* Output 4, after the restoring set_input_source returned True: the cache
\* takes the original state and the call returns it
Get4Restored(t) ==
  /\ task[t].pc = "g4_set"
  /\ Moved(t, ReturnVal(task[t], task[t].orig))
  /\ status_cache' = Put(status_cache, task[t].port, task[t].orig)
  /\ invoked' = <<>>
  /\ handled' = <<>>
  /\ caught' = "none"
  /\ UNCHANGED <<connected, reader, writer, callbacks, monitor_task, alive, scope>>

\* register_callback: the key is stored as passed
RegisterCallback(k) ==
  /\ InScope(k[2])
  /\ Cardinality(callbacks \cup {k}) <= MaxCallbacks
  /\ callbacks' = callbacks \cup {k}
  /\ invoked' = <<>>
  /\ handled' = <<>>
  /\ caught' = "none"
  /\ returned' = {}
  /\ UNCHANGED scope
  /\ UNCHANGED <<connected, reader, writer, status_cache, monitor_task, alive, task>>

(***************************************************************************)
(* The read loop, _monitor_responses.                                      *)
(***************************************************************************)
\* the task awaits a readuntil
Reading == monitor_task \in {"reading", "stale"}

\* `while self.connected and self.reader`
LoopAgain == IF connected /\ reader # "None" THEN "reading" ELSE "done"

\* a probe in flight alone notes the facts decoded for its port, and where it
\* was suspended then
Noted(f) ==
  [u \in Tasks |->
     IF task[u].op = "get" /\ InFlight(task[u]) /\ task[u].solo /\ task[u].port = f.port
       THEN IF Len(task[u].obs) < MaxObs
              THEN [task[u] EXCEPT !.obs = Append(@, <<task[u].pc, f.input>>)]
              ELSE [task[u] EXCEPT !.more = TRUE]
       ELSE task[u]]

\* what decoding and handling does with each line of the device, as a table
\* (@@ makes the table once, so a line is parsed once)
Handled == [data \in Lines |-> HandleResponse(Decode(data))] @@ <<>>

\* a notification that finds the callback under the port's string or int
Notify_AnyKey(f) ==
  IF StrKey(f.port) \in callbacks \/ IntKey(f.port) \in callbacks
    THEN <<<<StrKey(f.port), StrKey(f.input - 1)>>>>
    ELSE <<>>

\* a notification that passes the input as cached, 1..4
Notify_OneBased(f) ==
  IF StrKey(f.port) \in callbacks
    THEN <<<<StrKey(f.port), StrKey(f.input)>>>>
    ELSE <<>>

\* a notification only of a value that differs from the cached one
Notify_OnChange(f) ==
  IF StrKey(f.port) \in callbacks /\ ~(Has(status_cache, f.port) /\ status_cache[f.port] = f.input)
    THEN <<<<StrKey(f.port), StrKey(f.input - 1)>>>>
    ELSE <<>>

\* `if port_str in self._callbacks: self._callbacks[port_str](str(device_code))`
Notify(f) ==
  IF StrKey(f.port) \in callbacks
    THEN <<<<StrKey(f.port), StrKey(f.input - 1)>>>>
    ELSE <<>>

\* a handling whose exception reaches the loop's own `except`, which sleeps
ReadLine_Raises(data, note, raises) ==
  /\ Reading
  /\ LET f == Handled[data]
     IN /\ raises => (f.kind = "fact" /\ Notify(f) # <<>>)
        /\ caught' = IF ~note THEN "none"
                      ELSE IF f.kind = "raise" THEN "ValueError"
                      ELSE IF raises THEN "callback"
                      ELSE "none"
        /\ IF f.kind = "fact"
             THEN /\ InScope(f.port)
                  /\ InputInScope(f.input)
                  /\ status_cache' = Put(status_cache, f.port, f.input)
                  /\ invoked' = Notify(f)
                  /\ task' = Noted(f)
                  /\ UNCHANGED scope
             ELSE /\ invoked' = <<>>
                  /\ UNCHANGED <<status_cache, task, scope>>
        /\ monitor_task' = IF f.kind = "raise" \/ raises THEN "backoff" ELSE LoopAgain
  /\ handled' = IF ~note THEN <<>>
                ELSE IF handled # <<>> /\ handled[1] = data /\ Handled[data].kind = "fact"
                  THEN <<data, data>>
                ELSE <<data>>
  /\ alive' = IF LoopAgain = "done" THEN alive - 1 ELSE alive
  /\ returned' = {}
  /\ UNCHANGED <<connected, reader, writer, callbacks>>

\* readuntil returned a line: it is decoded and handled; note: whether the
\* run keeps the line in `handled`; raises: whether the callback it invokes
\* raises. The `except Exception` of _handle_response takes what int() or the
\* callback raises, after the cache was written, and the loop goes on
ReadLine(data, note, raises) ==
  /\ Reading
  /\ LET f == Handled[data]
     IN /\ raises => (f.kind = "fact" /\ Notify(f) # <<>>)
        /\ caught' = IF ~note THEN "none"
                      ELSE IF f.kind = "raise" THEN "ValueError"
                      ELSE IF raises THEN "callback"
                      ELSE "none"
        /\ IF f.kind = "fact"
             THEN /\ InScope(f.port)
                  /\ InputInScope(f.input)
                  /\ status_cache' = Put(status_cache, f.port, f.input)
                  /\ invoked' = Notify(f)
                  /\ task' = Noted(f)
                  /\ UNCHANGED scope
             ELSE /\ invoked' = <<>>
                  /\ UNCHANGED <<status_cache, task, scope>>
  /\ handled' = IF ~note THEN <<>>
                ELSE IF handled # <<>> /\ handled[1] = data /\ Handled[data].kind = "fact"
                  THEN <<data, data>>
                ELSE <<data>>
  /\ monitor_task' = LoopAgain
  /\ alive' = IF LoopAgain = "done" THEN alive - 1 ELSE alive
  /\ returned' = {}
  /\ UNCHANGED <<connected, reader, writer, callbacks>>

\* readuntil raised IncompleteReadError: the loop calls disconnect, which
\* cancels the task it runs in; the cancellation lands at wait_closed
PeerClose ==
  /\ Reading
  /\ IF connected
       THEN /\ DisconnectHead
            /\ IF writer # "None"
                 THEN UNCHANGED <<reader, status_cache>>
                 ELSE reader' = "None" /\ status_cache' = Empty
       ELSE /\ monitor_task' = "done"
            /\ alive' = alive - 1
            /\ UNCHANGED <<connected, reader, writer, status_cache>>
  /\ invoked' = <<>>
  /\ handled' = <<>>
  /\ caught' = "none"
  /\ returned' = {}
  /\ UNCHANGED <<callbacks, task, scope>>

\* readuntil raised another exception: the loop sleeps a second
ReadError ==
  /\ Reading
  /\ monitor_task' = "backoff"
  /\ UNCHANGED alive
  /\ invoked' = <<>>
  /\ handled' = <<>>
  /\ caught' = "none"
  /\ returned' = {}
  /\ UNCHANGED <<connected, reader, writer, status_cache, callbacks, task, scope>>

\* a loop that gives up after the error: `break` for the sleep
BackoffEnd_Breaks ==
  /\ monitor_task = "backoff"
  /\ monitor_task' = "done"
  /\ alive' = alive - 1
  /\ invoked' = <<>>
  /\ handled' = <<>>
  /\ caught' = "none"
  /\ returned' = {}
  /\ UNCHANGED <<connected, reader, writer, status_cache, callbacks, task, scope>>

\* `await asyncio.sleep(1)` returns, and the `while` tests its condition again
BackoffEnd ==
  /\ monitor_task = "backoff"
  /\ monitor_task' = LoopAgain
  /\ alive' = IF LoopAgain = "done" THEN alive - 1 ELSE alive
  /\ invoked' = <<>>
  /\ handled' = <<>>
  /\ caught' = "none"
  /\ returned' = {}
  /\ UNCHANGED <<connected, reader, writer, status_cache, callbacks, task, scope>>

Outcomes == {"down", "ok", "fail"}

\* the steps of a caller task
Call(t) ==
  \/ ConnectBegin(t)
  \/ \E opened \in BOOLEAN : ConnectEnd(t, opened)
  \/ DisconnectBegin(t)
  \/ WaitClosed(t)
  \/ \E p \in ArgRange, i \in ArgRange, o \in Outcomes : SetBegin(t, p, i, o)
  \/ SetEnd(t)
  \/ \E p \in ArgRange, o \in Outcomes : GetBegin(t, p, o)
  \/ \E o \in Outcomes : GetSecond(t, o)
  \/ \E o \in Outcomes, last \in BOOLEAN : GetPoll(t, o, last)
  \/ GetDirect(t)
  \/ \E o \in Outcomes, last \in BOOLEAN : Get4Poll(t, o, last)
  \/ Get4Restored(t)

\* the steps of the read loop
Monitor ==
  \/ \E data \in Broadcasts, raises \in BOOLEAN : ReadLine(data, FALSE, raises)
  \/ PeerClose
  \/ ReadError
  \/ BackoffEnd

\* callers sharing a client no entity has registered with
Next ==
  \/ \E t \in Tasks : Call(t)
  \/ Monitor

Spec == Init /\ [][Next]_vars

\* the registrations: select.py's entities register str(output_port); a caller
\* may as well pass the int
Register == \E p \in Ports : RegisterCallback(StrKey(p)) \/ RegisterCallback(IntKey(p))

\* one caller of a client that entities register with
NextEntities ==
  \/ Call(1)
  \/ Monitor
  \/ Register

SpecEntities == Init /\ [][NextEntities]_vars

\* the steps that take a get_current_status in flight forward: every sleep and
\* every wait_closed ends, and each poll loop has a last round (range(10),
\* range(5)), so a round that leaves the loop comes
GetOn(t) ==
  /\ task[t].op = "get"
  /\ \/ \E o \in Outcomes : GetSecond(t, o)
     \/ \E o \in Outcomes :
          \/ GetPoll(t, o, TRUE)
          \/ Has(status_cache, task[t].port) /\ GetPoll(t, o, FALSE)
     \/ GetDirect(t)
     \/ \E o \in Outcomes :
          \/ Get4Poll(t, o, TRUE)
          \/ Has(status_cache, task[t].port) /\ Get4Poll(t, o, FALSE)
     \/ Get4Restored(t)
     \/ WaitClosed(t)

\* the callers and the read loop, the event loop running every call that can
\* go on
SpecLive == Spec /\ \A t \in Tasks : WF_vars(GetOn(t))

\* the callers and the read loop, the event loop waking the read loop when its
\* sleep(1) is over
SpecLoop == Spec /\ WF_vars(BackoffEnd)

\* the read loop of a client one caller connects and entities register with,
\* fed every line of Lines; the run keeps the line handled
NextParse ==
  \/ ConnectBegin(1)
  \/ \E opened \in BOOLEAN : ConnectEnd(1, opened)
  \/ Register
  \/ \E data \in Lines, raises \in BOOLEAN : ReadLine(data, TRUE, raises)

SpecParse == Init /\ [][NextParse]_vars

(***************************************************************************)
(* Properties.  `returned` holds the record of the call that the latest    *)
(* step returned, so a predicate on it speaks of the moment of return.     *)
(***************************************************************************)
\* a call of the given kind that ran alone on a client that was connected when
\* it began and is connected when it returns
AloneAndUp(r, op) == r.op = op /\ r.solo /\ r.up /\ connected

\* C1: once set_input_source(port, input) has returned True on a connected
\* client, the cache holds input for port (so that a get_current_status(port)
\* made at once returns input), whatever the read loop decoded meanwhile
C1_SetThenRead ==
  \A r \in returned :
    (AloneAndUp(r, "set") /\ r.ok)
      => (Has(status_cache, r.port) /\ status_cache[r.port] = r.input)

\* a probe that is past the cache lookup and has not returned
Probing(r) == r.op = "get" /\ InFlight(r)

\* C2: on a connected client no two get_current_status calls for different
\* ports are past the cache lookup at the same time (at most one probe is in
\* flight)
C2_OneProbe ==
  \A t \in Tasks, u \in Tasks :
    (connected /\ Probing(task[t]) /\ Probing(task[u]) /\ task[t].port # task[u].port)
      => t = u

\* C3: when a disconnect that found the client connected returns (it is the one
\* that waits in wait_closed), connected is false, the read-loop task is
\* cancelled and dropped, the handles are dropped and the cache is empty
C3_Disconnected ==
  [][\A t \in Tasks :
       (task[t].op = "disconnect" /\ task[t].pc = "wc" /\ task'[t].pc = "idle")
         => /\ \E r \in returned' : r.op = "disconnect"
            /\ ~connected'
            /\ monitor_task' = "None"
            /\ reader' = "None"
            /\ writer' = "None"
            /\ status_cache' = Empty]_vars

\* a disconnect on a connected client, alone, has just returned
C3_Witness == \E r \in returned : r.op = "disconnect" /\ r.solo /\ r.up

\* C4: a get_current_status(port), port in 1..4, on a disconnected client with
\* nothing cached returns None and writes nothing
C4_GetAfterDisconnect ==
  \A r \in returned :
    (r.op = "get" /\ r.solo /\ ~r.up /\ ~r.hit /\ r.port \in Ports)
      => (r.val = NONE /\ r.wlog = <<>>)

\* C5: a disconnect on a client that is not connected, and a disconnect that
\* follows at once on the return of a disconnect, changes nothing of the client
\* and returns at once
C5_DisconnectIdempotent ==
  [][\A t \in Tasks :
       ((~connected \/ \E r \in returned : r.op = "disconnect") /\ DisconnectBegin(t))
         => /\ UNCHANGED client
            /\ \E r \in returned' : r.op = "disconnect"]_vars

\* a disconnect has returned at once on the return of a disconnect from a
\* connected client: nothing is left of the connection
C5_Witness ==
  /\ \E r \in returned : r.op = "disconnect" /\ r.solo /\ ~r.up
  /\ ~connected
  /\ status_cache # Empty

\* the commands a probe of port p writes before its direct query
Nudges(p) == IF p = 4 THEN <<increase_cmd>> ELSE safe_commands[p]

\* a probe (a get_current_status that missed the cache) of port p that ran alone
\* on a connected client, none of its writes failing
CleanProbe(r) == AloneAndUp(r, "get") /\ ~r.hit /\ ~r.fault /\ r.port \in Ports

\* C6: a probe of a port in 1..3 during which the read loop decoded one fact
\* for the port, input X, between the decrease and the increase, and none
\* after, returns X and has written the port's decrease and then its increase
\* (COMMAND_MAP's OUT<port>_MINUS and OUT<port>_PLUS)
C6_NudgeAnswered ==
  \A r \in returned :
    (CleanProbe(r) /\ r.port \in 1..3 /\ Len(r.obs) = 1 /\ ~r.more /\ r.obs[1][1] = "g_s1")
      => /\ r.val = r.obs[1][2]
         /\ r.wlog = <<FromHex(COMMAND_MAP[<<"MINUS", r.port>>]),
                       FromHex(COMMAND_MAP[<<"PLUS", r.port>>])>>

\* the scenario: the probe of port 2 saw input 2 after its decrease
C6_Witness ==
  \E r \in returned :
    /\ CleanProbe(r) /\ r.port = 2 /\ ~r.more
    /\ r.obs = << <<"g_s1", 2>> >>
    /\ r.val = 2

\* C7: a probe during which the read loop decoded no fact for the port has
\* written its nudges and then the port's direct query, the bytes of
\* set_input_source(port, 1); it returns 1 and leaves 1 in the cache for the
\* port, which the next get_current_status(port) returns
C7_DefaultCached ==
  \A r \in returned :
    (CleanProbe(r) /\ r.obs = <<>>)
      => /\ r.wlog = Nudges(r.port) \o <<direct_query_commands[r.port]>>
         /\ direct_query_commands[r.port] = commands[<<r.port, 1>>]
         /\ r.val = 1
         /\ Has(status_cache, r.port) /\ status_cache[r.port] = 1

\* a probe that saw nothing has returned
C7_Witness == \E r \in returned : CleanProbe(r) /\ r.obs = <<>> /\ r.val = 1

\* C8: a get_current_status that finds the port in the cache returns the entry
\* at once, having written nothing, and changes nothing of the client
C8_CacheHit ==
  [][\A r \in returned' :
       (r.op = "get" /\ r.hit)
         => /\ Has(status_cache, r.port) /\ r.val = status_cache[r.port]
            /\ r.wlog = <<>>
            /\ ~\E t \in Tasks : task[t].op = "get" /\ InFlight(task[t])
                                   /\ ~InFlight(task'[t])
            /\ UNCHANGED client]_vars

\* the scenario: get_current_status(1) answered 3 from the cache of a connected
\* client, alone
C8_Witness ==
  \E r \in returned :
    r.op = "get" /\ r.hit /\ r.solo /\ r.port = 1 /\ r.val = 3 /\ connected

\* C9: a set_input_source with the port or the input outside 1..4 returns
\* False at once, having written nothing, changes nothing of the client and
\* invokes no callback
C9_InvalidRejected ==
  [][\A r \in returned' :
       (r.op = "set" /\ ~(r.port \in Ports /\ r.input \in Inputs))
         => /\ ~r.ok
            /\ r.wlog = <<>> /\ ~r.fault
            /\ invoked' = <<>>
            /\ UNCHANGED client]_vars

\* an out-of-range set_input_source has returned on a connected client that has
\* something cached and a callback registered
C9_Witness ==
  \E r \in returned :
    /\ r.op = "set" /\ ~(r.port \in Ports /\ r.input \in Inputs)
    /\ connected /\ status_cache # Empty /\ callbacks # {}

HEXDIGITS == <<"0", "1", "2", "3", "4", "5", "6", "7", "8", "9", "a", "b", "c", "d", "e", "f">>
CirText(v) == "cir " \o HEXDIGITS[(v \div 16) + 1] \o HEXDIGITS[(v % 16) + 1] \o "\r\n"

\* C11: a set_input_source(port, input) that returned True has written one
\* command, the bytes of COMMAND_MAP's OUT<port>_IN<input>, which are `cir `,
\* the two hex digits of 8*(port-1)+(input-1), CR LF
C11_OneTableCommand ==
  \A r \in returned :
    (r.op = "set" /\ r.ok /\ r.solo)
      => /\ r.wlog = <<FromHex(COMMAND_MAP_IN[<<r.port, r.input>>])>>
         /\ r.wlog = <<CirText(8 * (r.port - 1) + (r.input - 1))>>

\* set_input_source(4, 3) has returned True, alone
C11_Witness ==
  \E r \in returned : r.op = "set" /\ r.ok /\ r.solo /\ r.port = 4 /\ r.input = 3

\* the latest step handled the line d
Just(d) == handled # <<>> /\ handled[1] = d

\* the table that gives, for each line f[k], the numbers k it was written from
RECURSIVE NumbersOf(_, _)
NumbersOf(f, K) ==
  IF K = {} THEN <<>>
  ELSE LET k == CHOOSE x \in K : TRUE
       IN (f[k] :> k) @@ NumbersOf(f, K \ {k})

\* the named-pair lines, by their numbers
RxTx == [k \in RxTxNumbers |-> RxTxLine(k[1], k[2])]
RxTxOf == NumbersOf(RxTx, DOMAIN RxTx)
RxTxLines == DOMAIN RxTxOf

\* C12: a step that handles the line `Rx<R> to Tx<T>` sets the cache entry of
\* port T-4+1 to R-11+1 when R is in 11..14 and T in 4..7, and leaves the cache
\* as it was for any other R or T
C12_NamedPair ==
  [][(handled' # <<>> /\ handled'[1] \in RxTxLines)
       => LET R == RxTxOf[handled'[1]][1]
              T == RxTxOf[handled'[1]][2]
          IN IF R \in 11..14 /\ T \in 4..7
               THEN status_cache' = Put(status_cache, (T - 4) + 1, (R - 11) + 1)
               ELSE UNCHANGED status_cache]_vars

\* `Rx12 to Tx5` has been handled: Output 2 shows IN2
C12_Witness ==
  /\ handled = <<RxTxLine(12, 5)>>
  /\ Has(status_cache, 2) /\ status_cache[2] = 2

\* the legacy lines, by their numbers, and the names of the inputs
SLine == [k \in LegacyNumbers |-> LegacyLine(k[1], k[2])]
SLineOf == NumbersOf(SLine, DOMAIN SLine)
SLines == DOMAIN SLineOf
InputName == [n \in Inputs |-> "IN" \o DIGITS[n + 1]]

\* C13: a step that handles the line `s<port><code>` sets the cache entry of
\* port to code+1 when port is in 1..4 and code in 0..3, which is the input
\* STATE_MAP names for the line, and leaves the cache as it was for any other
\* port or code (s14, s50) and for a line too short (s1)
C13_Legacy ==
  [][/\ (handled' # <<>> /\ handled'[1] \in SLines)
          => LET port == SLineOf[handled'[1]][1]
                 code == SLineOf[handled'[1]][2]
             IN IF port \in 1..4 /\ code \in 0..3
                  THEN status_cache' = Put(status_cache, port, code + 1)
                  ELSE UNCHANGED status_cache
     /\ \A k \in DOMAIN STATE_MAP :
          Just(k)'
            => /\ Has(status_cache', DigitVal(k[2]))
               /\ InputName[status_cache'[DigitVal(k[2])]] = STATE_MAP[k]
     /\ Just(<<"s", "1">>)' => UNCHANGED status_cache]_vars

\* `s21` has been handled: Output 2 shows IN2
C13_Witness ==
  /\ handled = <<LegacyLine(2, 1)>>
  /\ Has(status_cache, 2) /\ status_cache[2] = 2

\* lines that begin as the legacy form does and hold a number in 11..14 and a
\* number in 4..7: the legacy reading of `s11 4` raises on the code "1 4", the
\* one of `s4 11` gives code 11, which is no input
S11_4 == <<"s", "1", "1", " ", "4">>
S4_11 == <<"s", "4", " ", "1", "1">>

\* C14: a step that handles a line of the legacy shape that also holds a pair
\* of numbers 11..14 and 4..7 does what the legacy reading gives: `s11 4` and
\* `s4 11` are discarded (no cache change, no callback: reading the pair would
\* have set Output 1 to IN1), and `s<port><code>` sets the entry of port to
\* code+1 and reports the device code to the callback of that port
C14_LegacyWins ==
  [][/\ (Just(S11_4) \/ Just(S4_11))'
          => UNCHANGED status_cache /\ invoked' = <<>>
     /\ (handled' # <<>> /\ handled'[1] \in SLines)
          => LET port == SLineOf[handled'[1]][1]
                 code == SLineOf[handled'[1]][2]
             IN (port \in 1..4 /\ code \in 0..3)
                  => /\ Has(status_cache', port) /\ status_cache'[port] = code + 1
                     /\ StrKey(port) \in callbacks
                          => invoked' = <<<<StrKey(port), StrKey(code)>>>>]_vars

\* `s11 4` has been handled while the callback of Output 1 is registered and
\* Output 1 is not on IN1
C14_Witness ==
  /\ handled = <<S11_4>>
  /\ StrKey(1) \in callbacks
  /\ ~(Has(status_cache, 1) /\ status_cache[1] = 1)
  /\ invoked = <<>>

\* C15: a step that handles `hello world`, the empty line or a line of
\* whitespace changes no entry of the cache and invokes no callback
C15_Garbage ==
  [][(Just(HelloWorld) \/ Just(<<>>) \/ Just(<<" ">>))'
       => UNCHANGED status_cache /\ invoked' = <<>>]_vars

\* `hello world` has been handled by a client that holds an entry and a
\* callback of that entry's port
C15_Witness ==
  /\ handled = <<HelloWorld>>
  /\ \E p \in Ports : Has(status_cache, p) /\ StrKey(p) \in callbacks

\* the lines that say Output p shows IN i, one of each form
ValidLines ==
  [k \in Ports \X Inputs |->
     {RxTxLine(k[2] + 10, k[1] + 3), LegacyLine(k[1], k[2] - 1), BypassLine(k[2] + 10, k[1])}]

\* the port and the input a valid line says
FactOf ==
  NumbersOf([k \in Ports \X Inputs |-> RxTxLine(k[2] + 10, k[1] + 3)], Ports \X Inputs)
    @@ NumbersOf([k \in Ports \X Inputs |-> LegacyLine(k[1], k[2] - 1)], Ports \X Inputs)
    @@ NumbersOf([k \in Ports \X Inputs |-> BypassLine(k[2] + 10, k[1])], Ports \X Inputs)
FactLines == DOMAIN FactOf

\* C16: when two steps in a row handle the same valid line for Output p, the
\* entry of p has the line's input after the first and after the second, and
\* the second invokes what the first invoked: with a callback registered for
\* p, that callback with the same device code
C16_Idempotent ==
  [][Len(handled') = 2
       => \A p \in Ports, i \in Inputs : \A d \in ValidLines[<<p, i>>] :
            handled'[1] = d
              => /\ Has(status_cache, p) /\ status_cache[p] = i
                 /\ Has(status_cache', p) /\ status_cache'[p] = i
                 /\ invoked' = invoked
                 /\ StrKey(p) \in callbacks
                      => invoked' = <<<<StrKey(p), StrKey(i - 1)>>>>]_vars

\* `Rx13 to Tx6` has been handled twice in a row with the callback of Output 3
\* registered
C16_Witness ==
  /\ handled = <<RxTxLine(13, 6), RxTxLine(13, 6)>>
  /\ StrKey(3) \in callbacks
  /\ invoked = <<<<StrKey(3), StrKey(2)>>>>

\* C17: a step of the read loop that handles a valid line for Output p and
\* IN i sets the entry of p to i and leaves every other entry as it was; it
\* invokes the callback registered under str(p), once, with str(i-1), and
\* nothing else; without that callback it invokes nothing
C17_DecodeEffect ==
  [][(handled' # <<>> /\ handled'[1] \in FactLines)
       => LET p == FactOf[handled'[1]][1]
              i == FactOf[handled'[1]][2]
          IN /\ status_cache' = Put(status_cache, p, i)
             /\ \A q \in Ports \ {p} :
                  /\ Has(status_cache', q) <=> Has(status_cache, q)
                  /\ Has(status_cache, q) => status_cache'[q] = status_cache[q]
             /\ invoked' = IF StrKey(p) \in callbacks
                             THEN <<<<StrKey(p), StrKey(i - 1)>>>>
                             ELSE <<>>]_vars

\* the line of Output 2 on IN4 has been handled by a client that holds the
\* entry of Output 1 and the callback of Output 2: the callback got "3"
C17_Witness ==
  /\ handled = <<BypassLine(14, 2)>>
  /\ Has(status_cache, 1)
  /\ Has(status_cache, 2) /\ status_cache[2] = 4
  /\ invoked = <<<<StrKey(2), StrKey(3)>>>>

\* a line of another port has been handled while the callback of Output 2 is
\* the one registered: it was not invoked
C17_OtherPort ==
  /\ handled = <<LegacyLine(1, 0)>>
  /\ StrKey(2) \in callbacks
  /\ invoked = <<>>

C18_Invoked ==
  /\ handled = <<RxTxLine(11, 6)>>
  /\ StrKey(3) \in callbacks
  /\ invoked = <<<<StrKey(3), StrKey(0)>>>>

\* C19: in every state the callers and the device's lines lead to, every key
\* of the cache is an output port 1..4 and every value an input source 1..4
C19_CacheInRange ==
  \A k \in DOMAIN status_cache : k \in 1..4 /\ status_cache[k] \in 1..4

\* a caller has just been refused IN5 for a port whose entry the cache holds
C19_Witness ==
  \E r \in returned :
    /\ r.op = "set" /\ ~r.ok /\ r.port \in Ports /\ r.input = N + 1
    /\ Has(status_cache, r.port)

\* C20: a connect returns (it never raises), and returns True exactly when the
\* open succeeded: then connected is true, the handles are those of the new
\* connection and the read loop runs on it (it awaits readuntil of the new
\* reader, or sleeps before it reads it); a connect whose open failed returns
\* False, leaves connected false and starts no read loop
C20_Connect ==
  [][\A t \in Tasks :
       (task[t].pc = "open" /\ task'[t].pc = "idle")
         => \E r \in returned' :
              /\ r.op = "connect"
              /\ r.ok <=> connected'
              /\ r.ok => /\ reader' = "open" /\ writer' = "open"
                         /\ monitor_task' \in {"reading", "backoff"}
              /\ ~r.ok => UNCHANGED <<reader, writer, monitor_task>>]_vars

\* C21: the step in which the read loop meets the peer's close on a connected
\* client (no caller moves: the loop itself calls disconnect) leaves connected
\* false, the loop ended, the handles dropped and the cache empty
C21_PeerClose ==
  [][(Reading /\ connected /\ ~connected' /\ task' = task)
       => /\ monitor_task' \in {"None", "done"}
          /\ reader' = "None"
          /\ writer' = "None"
          /\ status_cache' = Empty]_vars

\* C22: a get_current_status in flight returns, whatever the device sends or
\* does not send and whatever the other caller and the read loop do meanwhile
C22_GetReturns ==
  \A t \in Tasks :
    (task[t].op = "get" /\ InFlight(task[t])) ~> ~InFlight(task[t])

\* a probe begun alone on a connected client, which no line answered and which
\* lost its connection on the way, has returned the default
C22_Witness ==
  \E r \in returned :
    /\ r.op = "get" /\ r.up /\ ~r.hit /\ r.port \in 1..3 /\ r.val = 1
    /\ ~connected

\* C23: while a probe is pending, a step of the read loop (the probe stays
\* where it is suspended) changes no entry of the cache and invokes no
\* callback: the line goes to the probe alone
C23_ProbeOnly ==
  [][\A t \in Tasks :
       (Reading /\ Probing(task[t]) /\ Probing(task'[t]) /\ task'[t].pc = task[t].pc)
         => /\ status_cache' = status_cache
            /\ invoked' = <<>>]_vars

\* C24: in every state, a client that is not connected, no disconnect being on
\* its way to clear the cache, holds an empty cache
C24_DisconnectedEmpty ==
  (~connected /\ \A t \in Tasks : task[t].pc # "wc") => status_cache = Empty

\* C25: a probe of a port in 1..3, alone on a connected client, during which
\* the read loop decoded a fact for the port after the decrease and a second
\* one after the increase (and no more), returns the input of the first
C25_DecreaseObserved ==
  \A r \in returned :
    (/\ CleanProbe(r) /\ r.port \in 1..3 /\ ~r.more
     /\ Len(r.obs) = 2 /\ r.obs[1][1] = "g_s1" /\ r.obs[2][1] = "g_poll")
      => r.val = r.obs[1][2]

\* the status a probe of Output 4 found in the cache in its five-round loop:
\* the last fact decoded for the port while it waited there
Increased(r) ==
  LET at == {k \in 1..Len(r.obs) : r.obs[k][1] = "g4_poll"}
  IN r.obs[CHOOSE k \in at : \A j \in at : j <= k][2]

\* C26: a probe of Output 4, alone on a connected client with no entry for the
\* port, that observed status X in its five-round loop has written the
\* increase (COMMAND_MAP's OUT4_PLUS) and then the command of
\* set_input_source(4, original), original being X-1, or 4 when X is 1; it
\* returns original and leaves it in the cache
C26_Output4 ==
  \A r \in returned :
    (CleanProbe(r) /\ r.port = 4 /\ ~r.more /\ r.obs # <<>> /\ r.obs[1][1] = "g4_poll")
      => LET X == Increased(r)
             original == IF X = 1 THEN 4 ELSE X - 1
         IN /\ r.val = original
            /\ r.wlog = <<FromHex(COMMAND_MAP[<<"PLUS", 4>>]),
                          FromHex(COMMAND_MAP_IN[<<4, original>>])>>
            /\ Has(status_cache, 4) /\ status_cache[4] = original

\* the probe of Output 4 saw IN1 after its increase and has returned 4
C26_Witness ==
  \E r \in returned :
    /\ CleanProbe(r) /\ r.port = 4 /\ ~r.more
    /\ r.obs = << <<"g4_poll", 1>> >>
    /\ r.val = 4

\* C27: a probe of Output 4, alone on a connected client, that returns after
\* the read loop decoded a fact for the port, at whatever point of its wait,
\* has written, last, the command of set_input_source(4, v) for the value v it
\* returns; with one fact decoded, for input X, v is not X
C27_AlwaysRestored ==
  \A r \in returned :
    (CleanProbe(r) /\ r.port = 4 /\ ~r.more /\ r.obs # <<>>)
      => /\ Len(r.wlog) >= 2
         /\ r.wlog[Len(r.wlog)] = FromHex(COMMAND_MAP_IN[<<4, r.val>>])
         /\ Len(r.obs) = 1 => r.val # r.obs[1][2]

\* the entry of port P after the step is not the one before it
Written(P) ==
  Has(status_cache', P) /\ (Has(status_cache, P) => status_cache'[P] # status_cache[P])

\* C28: a probe of port P that ran with no other call in flight and returns
\* a value other than the default 1 returns the input of a fact the read loop
\* decoded for P during the probe (for Output 4, that or the original inferred
\* from it), whatever lines of other ports the loop decoded meanwhile; and
\* whoever else runs, the entry of P, which is all a probe of P reads, is
\* written only by a call that is about P or by a step of the read loop, which
\* writes the entry of one port and leaves the others as they were
C28_OwnPort ==
  [][/\ \A r \in returned' :
          (r.op = "get" /\ r.solo /\ ~r.hit /\ ~r.more /\ r.val # NONE /\ r.val # 1)
            => \E k \in 1..Len(r.obs) :
                 \/ r.val = r.obs[k][2]
                 \/ r.port = 4 /\ r.val = (IF r.obs[k][2] = 1 THEN 4 ELSE r.obs[k][2] - 1)
     /\ \A P \in Ports :
          Written(P)
            => \/ \E u \in Tasks :
                    /\ task'[u].pc # task[u].pc
                    /\ P \in {task[u].port, task'[u].port}
               \/ /\ \A u \in Tasks : task'[u].pc = task[u].pc
                  /\ \A Q \in Ports \ {P} :
                       /\ Has(status_cache', Q) <=> Has(status_cache, Q)
                       /\ Has(status_cache, Q) => status_cache'[Q] = status_cache[Q]]_vars

\* a probe of Output 2 has returned the IN2 decoded for it while the cache
\* holds IN1 for Output 1
C28_Witness ==
  /\ \E r \in returned :
       /\ CleanProbe(r) /\ r.port = 2 /\ ~r.more
       /\ r.obs # <<>>
       /\ r.val = 2
  /\ Has(status_cache, 1) /\ status_cache[1] = 1

\* C29: the legacy form is tried before the named pair, and a line an earlier
\* recognizer gets nothing from goes on to the later ones: `s10 Rx12 to Tx5`
\* sets the entry of Output 1 to IN1 as its legacy form says, and the bypass
\* route of In11 to Out[1/4] that also holds `to` and `tx`, from which the
\* named-pair recognizer gets no pair, sets the entry of Output 1 to IN1 as
\* the bypass-route recognizer reads it
C29_Order ==
  [][/\ Just(LegacyNamed)' => status_cache' = Put(status_cache, 1, 1)
     /\ Just(BypassWithTx)' => status_cache' = Put(status_cache, 1, 1)]_vars

\* the bypass-route lines, by their numbers
Bypass == [k \in BypassNumbers |-> BypassLine(k[1], k[2])]
BypassOf == NumbersOf(Bypass, DOMAIN Bypass)
BypassLines == DOMAIN BypassOf

\* C30: a step that handles `Bypass is 1 from In<NN>(Legacy1) to Out[<n>/4]`
\* sets the entry of n to NN-11+1 when n is in 1..4 and NN in 11..14, and
\* leaves the cache as it was for any other n or NN
C30_BypassRoute ==
  [][(handled' # <<>> /\ handled'[1] \in BypassLines)
       => LET NN == BypassOf[handled'[1]][1]
              n == BypassOf[handled'[1]][2]
          IN IF n \in 1..4 /\ NN \in 11..14
               THEN status_cache' = Put(status_cache, n, (NN - 11) + 1)
               ELSE UNCHANGED status_cache]_vars

\* the route of In13 to Out[4/4] has been handled: Output 4 shows IN3
C30_Witness ==
  /\ handled = <<BypassLine(13, 4)>>
  /\ Has(status_cache, 4) /\ status_cache[4] = 3

\* the route of In15 to Out[1/4] has been handled and has left the entry of
\* Output 1 as it was
C30_OutOfRange ==
  /\ handled = <<BypassLine(15, 1)>>
  /\ Has(status_cache, 1) /\ status_cache[1] = 2

\* the bypass routes that name their output by a Tx token, by their numbers
BypassTx == [k \in InTx \X ToWords |-> BypassTxLine(k[1][1], k[1][2], k[2])]
BypassTxOf == NumbersOf(BypassTx, DOMAIN BypassTx)
BypassTxLines == DOMAIN BypassTxOf

\* C31: a bypass-route line that carries its input as In<NN> and its output only
\* as a Tx<TT> token, NN in 11..14 and TT in 4..7, sets the cache entry of
\* Output TT-4+1 to NN-11+1.
C31_TxFallback ==
  [][(handled' # <<>> /\ handled'[1] \in BypassTxLines)
       => LET NN == BypassTxOf[handled'[1]][1][1]
              TT == BypassTxOf[handled'[1]][1][2]
          IN status_cache' = Put(status_cache, (TT - 4) + 1, (NN - 11) + 1)]_vars

\* the fallback is taken when the line's `to` is not in lower case
C31_UpperTo ==
  /\ handled = <<BypassTxLine(12, 5, <<"T","O">>)>>
  /\ Has(status_cache, 2) /\ status_cache[2] = 2

\* C32: a line matched by no earlier recognizer whose digit runs include a number
\* in 11..14 and a number in 4..7 is resolved by the heuristic: `12 5` sets
\* Output 2 to IN2 and the port's callback is invoked.
C32_DigitRuns ==
  [][Just(Digits12_5)'
       => /\ status_cache' = Put(status_cache, 2, 2)
          /\ StrKey(2) \in callbacks => invoked' = <<<<StrKey(2), StrKey(1)>>>>]_vars

\* the bypass-port announcements, by the port they carry
BypassPortOf ==
  NumbersOf([n \in BypassPortNumbers |-> BypassPortLine(n)], BypassPortNumbers)
BypassPortLines == DOMAIN BypassPortOf

\* C33: a step that handles a bypass-port announcement, whatever port number
\* it carries, changes no entry of the cache and invokes no callback.
C33_Announcement ==
  [][(handled' # <<>> /\ handled'[1] \in BypassPortLines)
       => UNCHANGED status_cache /\ invoked' = <<>>]_vars

\* `** HDMI HDCP bypass port 7` has been handled by a client that holds an
\* entry for Output 2, the output port 7 stands for, and a callback of it
C33_Witness ==
  /\ handled = <<BypassPortLine(7)>>
  /\ BypassPort(Split(Decode(BypassPortLine(7)))) = 7
  /\ Has(status_cache, 2) /\ status_cache[2] = 2
  /\ StrKey(2) \in callbacks

\* C38: a get_current_status of a port outside 1..4 returns None in the step it
\* begins, before any suspension point, so having written nothing; it raises
\* nothing and leaves the cache and the rest of the client as they were.
C38_InvalidPort ==
  [][\A r \in returned' :
       (r.op = "get" /\ r.port \notin Ports)
         => /\ r.val = NONE
            /\ \A t \in Tasks : ~(task[t].op = "get" /\ task[t].port = r.port)
            /\ r.wlog = <<>> /\ ~r.fault
            /\ UNCHANGED client]_vars

\* a get_current_status of Output 0 or 5 has returned on a connected client
\* that holds an entry
C38_Witness ==
  \E r \in returned :
    /\ r.op = "get" /\ r.port \notin Ports /\ r.val = NONE
    /\ connected /\ writer = "open" /\ status_cache # Empty

\* C37: while a set_input_source(4, y) that has written its command and stored
\* y sleeps out its settle delay, a probe of Output 4 in its five-round loop
\* does not take the y in the cache for the status after its increase: it
\* does not go on to restore Output 4 to the input before y.
C37_SetNotMistaken ==
  [][\A t, u \in Tasks :
       (/\ task[t].op = "get" /\ task[t].pc = "g4_poll"
        /\ task[u].op = "set" /\ task[u].pc = "s_sleep" /\ task[u].port = 4
        /\ Has(status_cache, 4) /\ status_cache[4] = task[u].input)
         => ~(/\ task'[t].pc \in {"g4_set", "g4_set_fail"}
              /\ task'[t].orig = OriginalState(task[u].input))]_vars

\* C34: a read error other than the peer's close does not end the read loop
\* while connected stays true: the loop sleeps, and from its sleep it comes to
\* await a line again, which it then decodes and applies, unless connected has
\* become false meanwhile.
C34_ErrorSurvived ==
  /\ [][(monitor_task = "backoff" /\ connected /\ connected')
          => monitor_task' \in {"backoff", "reading"}]_vars
  /\ (monitor_task = "backoff" /\ connected) ~> (Reading \/ ~connected)

\* the loop sleeps after a read error, on a connected client that holds an entry
C34_Witness ==
  /\ monitor_task = "backoff" /\ connected /\ reader = "open"
  /\ status_cache # Empty

\* C35: what handling a line raises stays inside the handling. A step that
\* handles `sab` (int() raises on it) stores nothing and invokes nothing; a step
\* in which the callback raises has stored the fact first. After either, the
\* read loop is where it is after any line, awaiting the next one while the
\* client is connected, and connected and the handles are as they were.
C35_Contained ==
  [][/\ caught' # "none"
          => /\ monitor_task' = LoopAgain
             /\ (connected /\ reader # "None") => Reading'
             /\ UNCHANGED <<connected, reader, writer>>
     /\ Just(<<"s", "a", "b">>)'
          => caught' = "ValueError" /\ UNCHANGED status_cache /\ invoked' = <<>>
     /\ caught' = "callback"
          => /\ Len(invoked') = 1
             /\ Has(status_cache', invoked'[1][1][2])
             /\ StrKey(status_cache'[invoked'[1][1][2]] - 1) = invoked'[1][2]]_vars

\* the callback of Output 2 raised on `Rx12 to Tx5`, read by a connected
\* client: the loop awaits the next line
C35_Witness ==
  /\ caught = "callback" /\ handled = <<RxTxLine(12, 5)>>
  /\ connected /\ Reading
  /\ status_cache[2] = 2

\* `sab` was handled by a connected client that holds an entry and a callback
C35_Malformed ==
  /\ caught = "ValueError" /\ handled = <<<<"s", "a", "b">>>>
  /\ connected /\ Reading
  /\ \E p \in Ports : Has(status_cache, p) /\ StrKey(p) \in callbacks

\* C36: at most one read-loop task is alive, whatever connects, disconnects and
\* closes by the peer came before; a readuntil of the socket is pending only in
\* that task, the one self._monitor_task keeps.
C36_SingleReader ==
  /\ alive <= 1
  /\ (monitor_task \in {"reading", "stale", "backoff"}) <=> alive = 1

\* connect was called again on a connected client whose read loop was reading
C36_Witness == monitor_task = "stale" /\ connected /\ alive = 1

\* the peer closed the connection and the client connected again
C36_Reconnected ==
  /\ monitor_task = "reading" /\ connected /\ alive = 1
  /\ \E r \in returned : r.op = "connect" /\ r.ok /\ ~r.up /\ status_cache # Empty

====
